---- MODULE Spec2Model ----
(***************************************************************************)
(* Model of the map workspace of Planscape's interface:                    *)
(* src/interface/src/app/map/map.component.ts (MapComponent).              *)
(* The component owns four maps, the shared MapViewOptions, the area       *)
(* creation toolbar (draw / upload / cancel), the session restore, the     *)
(* creation of plans, the loading indicators and the condition tree.       *)
(* MapManager (map-manager.ts) is not part of the sources at hand; its     *)
(* methods are modelled from the specification's description of the        *)
(* render engine and the drawing session.                                  *)
(***************************************************************************)
EXTENDS Integers, Sequences, FiniteSets, TLC

\* ------------------------------------------------------------------------
\* Bounds of the model
\* ------------------------------------------------------------------------
\* Number of archive reads (loadArea) that may be in flight at once.
MaxInFlight == 2

\* ------------------------------------------------------------------------
\* Program constants
\* ------------------------------------------------------------------------
\* this.maps = ['map1','map2','map3','map4'], indices 0..3
NumMaps == 4
MapIndices == 0 .. (NumMaps - 1)

\* enum AreaCreationAction
NONE == 0
DRAW == 1
UPLOAD == 2
AreaCreationAction == {NONE, DRAW, UPLOAD}

\* The values the map-count toggle of the toolbar passes to changeMapCount.
MapCounts == {1, 2, 4}

\* The archives a user may hand to the uploader, by what shp.parseZip makes
\* of them: "corrupt" makes the parser throw, "feature" parses to a single
\* Feature (not a collection), "fcA" parses to a FeatureCollection.
\* "nofile" is an upload event without a file.
Archives == {"corrupt", "feature", "fcA"}
NoFile == "nofile"

\* The shape a user draws by hand with the polygon tool.
DrawnPolygon == "poly"

\* shp.parseZip, by outcome: whether it throws, and the type and the features
\* of the GeoJSON it returns.
parseZip(file) ==
    CASE file = "corrupt" -> [throws |-> TRUE,  type |-> "none",              features |-> {}]
      [] file = "feature" -> [throws |-> FALSE, type |-> "Feature",           features |-> {"f"}]
      [] OTHER            -> [throws |-> FALSE, type |-> "FeatureCollection", features |-> {"a"}]

\* defaultMapViewOptions()
defaultMapViewOptions == [selectedMapIndex |-> 0, numVisibleMaps |-> 4]

\* What a session of this program can have persisted: nothing (<<>>) or one
\* MapViewOptions value written by setMapViewOptions.
PersistedViewOptions ==
    {<<>>} \cup
    { <<[selectedMapIndex |-> i, numVisibleMaps |-> n]>> : i \in MapIndices, n \in MapCounts }

\* Colormap ids: the sentinel of a layer drawn without a colormap, the id used
\* for a layer that names none, and the value of a colormap field never set.
NONE_COLORMAP == "none"

DEFAULT_COLORMAP == "viridis"

UndefinedColormap == "<undefined>"

\* A node of the condition tree (ConditionsNode).  styleDisabled is "unset"
\* as long as nothing assigned the field, colormap is UndefinedColormap.
Node(filepath, normalized, disableSelect, children) ==
    [ filepath      |-> filepath,
      normalized    |-> normalized,
      disableSelect |-> disableSelect,
      styleDisabled |-> "unset",
      colormap      |-> UndefinedColormap,
      children      |-> children ]

NONE_DATA_LAYER_CONFIG ==
    [Node("", FALSE, FALSE, <<>>) EXCEPT !.colormap = NONE_COLORMAP]

\* The value of the legend field of a map that has none, and the legend made
\* of the colormap the map service answers with for an id.
UndefinedLegend == "<undefined>"

colormapConfigToLegend(colormapConfig) == "legend of " \o colormapConfig

NONE_BOUNDARY_CONFIG == [boundary_name |-> "", vector_name |-> ""]

\* defaultMapConfig()
defaultMapConfig ==
    [ dataLayerConfig     |-> NONE_DATA_LAYER_CONFIG,
      boundaryLayerConfig |-> NONE_BOUNDARY_CONFIG ]

\* Boundary objects as a session persisted them ("stale") and as the boundary
\* catalog of the map service supplies them ("fresh").
StaleBoundary(name) == [boundary_name |-> name, vector_name |-> "stale:" \o name]
FreshBoundary(name) == [boundary_name |-> name, vector_name |-> "fresh:" \o name]

\* The catalogs the map service may emit on boundaryConfig$ (an empty list is
\* a catalog too).
BoundaryCatalogs ==
    { <<>>,
      <<FreshBoundary("HUC12")>>,
      <<FreshBoundary("County")>>,
      <<FreshBoundary("HUC12"), FreshBoundary("County")>> }

\* The map configs a session may have persisted for one map.
PersistedMapConfigChoices ==
    { [dataLayerConfig |-> Node("m1", FALSE, FALSE, <<>>),
       boundaryLayerConfig |-> StaleBoundary("HUC12")],
      [dataLayerConfig |-> NONE_DATA_LAYER_CONFIG,
       boundaryLayerConfig |-> StaleBoundary("County")],
      [dataLayerConfig |-> Node("m2_normalized", TRUE, FALSE, <<>>),
       boundaryLayerConfig |-> NONE_BOUNDARY_CONFIG] }

\* What a session can have persisted as the list of map configs: nothing
\* (<<>>) or one list with a config per map, in the order of the maps.
PersistedMapConfigs ==
    {<<>>} \cup { <<l>> : l \in [1 .. NumMaps -> PersistedMapConfigChoices] }

\* The persisted view options the restore of the session is examined with.
RestoredViewOptions ==
    { <<>>,
      <<[selectedMapIndex |-> 3, numVisibleMaps |-> 1]>>,
      <<[selectedMapIndex |-> 1, numVisibleMaps |-> 2]>> }

\* Values the session store emits after the restore.
LaterViewOptions ==
    { [selectedMapIndex |-> 2, numVisibleMaps |-> 4],
      [selectedMapIndex |-> 0, numVisibleMaps |-> 1] }

LaterMapConfigs ==
    { [i \in 1 .. NumMaps |->
         [dataLayerConfig |-> Node("m3", FALSE, FALSE, <<>>),
          boundaryLayerConfig |-> StaleBoundary("HUC12")]],
      [i \in 1 .. NumMaps |->
         [dataLayerConfig |-> NONE_DATA_LAYER_CONFIG,
          boundaryLayerConfig |-> StaleBoundary("USFS")]] }

\* The regions of the region dropdown; "none" is no region selected (null).
Regions == {"SIERRA_NEVADA", "CENTRAL_COAST"}

\* What the user enters in the dialog of a new plan, and the planning areas
\* the drawing converts to.
PlanInputs ==
    { [name |-> "plan1", shape |-> "areaA"],
      [name |-> "plan2", shape |-> "areaB"] }

\* The number of createPlan requests and of calls of the plan service a run
\* goes up to.
MaxPlanRequests == 2
MaxPlanCalls == 2

\* The layers whose loading the map manager reports.
LayerNames == {"existing_projects", "huc12", "m1"}

NoRegionNotice == "[Error] Please select a region!"
BackendErrorNotice == "[Error] Unable to create plan due to backend error."

\* The sizes of the conditions configs: pillars per config, and children
\* (elements per pillar, metrics per element).
MaxPillars == 2
MaxChildren == 2

\* The levels findAndRevealNodeWithFilepath searches: tree, pillar, element,
\* metric.
SearchedLevels == 4

\* A filepath that is undefined.
UndefinedFilepath == "<undefined>"

Digits == <<"1", "2", "3", "4", "5">>

\* A conditions config as the map service loads it: pillars pillars (with the
\* display flags given), elements elements in each pillar, metrics metrics in
\* each element; every filepath tells the position.
ConditionsConfig(display, elements, metrics) ==
    [ filepath |-> "cond",
      colormap |-> UndefinedColormap,
      pillars  |->
        [i \in DOMAIN display |->
           [ filepath |-> "p" \o Digits[i],
             colormap |-> UndefinedColormap,
             display  |-> display[i],
             elements |->
               [j \in 1 .. elements |->
                  [ filepath |-> "p" \o Digits[i] \o "e" \o Digits[j],
                    colormap |-> UndefinedColormap,
                    metrics  |->
                      [m \in 1 .. metrics |->
                         Node("p" \o Digits[i] \o "e" \o Digits[j] \o "m" \o Digits[m],
                              FALSE, FALSE, <<>>)] ]] ]] ]

ConditionsConfigs ==
    { ConditionsConfig(display, children, children) :
        display \in UNION { [1 .. n -> BOOLEAN] : n \in 0 .. MaxPillars },
        children \in 1 .. MaxChildren }

\* The data layers a session may have persisted for the four maps.
PersistedDataLayers ==
    { <<>>,
      << [i \in 1 .. NumMaps |->
            [ dataLayerConfig |->
                Node(<<"p1e1m1", "p2_normalized", "", "p1e2_normalized">>[i],
                     i \in {2, 4}, FALSE, <<>>),
              boundaryLayerConfig |-> NONE_BOUNDARY_CONFIG ]] >> }

VARIABLES
    phase,                        \* lifecycle: "constructed", "initialized", "running"
    mapViewOptions,               \* mapViewOptions$.getValue()
    selectedAreaCreationAction,   \* this.selectedAreaCreationAction
    showUploader,                 \* this.showUploader
    showConfirmAreaButton,        \* showConfirmAreaButton$.value
    control,                      \* control[i]: drawing control attached to map i
    tool,                         \* tool[i]: polygon drawing tool enabled on map i
    cloneShown,                   \* cloneShown[i]: cloned drawing shown on map i
    drawing,                      \* shapes on the (interactive) drawing layer
    cloned,                       \* shapes mirrored on the cloned layers
    sessionViewOptions,           \* SessionService: persisted MapViewOptions, <<>> if none
    sessionMapConfigs,            \* SessionService: persisted MapConfig list, <<>> if none
    mapConfigs,                   \* mapConfigs[i]: this.maps[i].config
    subs,                         \* the subscriptions restoreSession sets up
    legends,                      \* legends[i]: this.maps[i].legend
    colormapFetches,              \* getColormap requests in flight, oldest first
    boundaryConfig,               \* MapService.boundaryConfig$: <<>> (null) or <<catalog>>
    selectedRegion,               \* SessionService.region$: "none" or a region
    planRequests,                 \* the createPlan requests made so far
    loadingIndicators,            \* this.loadingIndicators
    existingProjects,             \* existingProjectsGeoJson$: "null" or "projects"
    conditionsConfig,             \* MapService.conditionsConfig$: <<>> (null) or <<config>>
    conditionData,                \* conditionDataSource.data
    expanded,                     \* nodes expanded through conditionTreeControl
    pending,                      \* pending[f]: reads of archive f by loadArea in flight
    lastOp,                       \* the handler that ran last and its argument
    calls                         \* the calls to collaborators that handler made

vars == <<phase, mapViewOptions, selectedAreaCreationAction, showUploader,
          showConfirmAreaButton, control, tool, cloneShown, drawing, cloned,
          sessionViewOptions, sessionMapConfigs, mapConfigs, subs, legends,
          colormapFetches, boundaryConfig,
          selectedRegion, planRequests, loadingIndicators, existingProjects,
          conditionsConfig, conditionData, expanded,
          pending, lastOp, calls>>

\* The fields the handlers of the component write (see Commit).
compVars == <<mapViewOptions, selectedAreaCreationAction, showUploader,
              showConfirmAreaButton, control, tool, cloneShown, drawing, cloned,
              sessionViewOptions, sessionMapConfigs, mapConfigs, subs, legends,
              colormapFetches>>

\* The state of the plan creation and of the loading indicators, and the
\* state of the condition tree.
orchVars == <<selectedRegion, planRequests, loadingIndicators, existingProjects>>
treeVars == <<conditionsConfig, conditionData, expanded>>

\* The component's mutable state as one value, so that a handler reads as the
\* sequence of statements it is in the source.
Comp ==
    [ mvo          |-> mapViewOptions,
      action       |-> selectedAreaCreationAction,
      showUploader |-> showUploader,
      confirm      |-> showConfirmAreaButton,
      control      |-> control,
      tool         |-> tool,
      cloneShown   |-> cloneShown,
      drawing      |-> drawing,
      cloned       |-> cloned,
      session      |-> sessionViewOptions,
      sessionConfigs |-> sessionMapConfigs,
      mapConfigs   |-> mapConfigs,
      subs         |-> subs,
      legends      |-> legends,
      fetches      |-> colormapFetches,
      calls        |-> <<>> ]

Call(c, name, arg) == [c EXCEPT !.calls = Append(@, <<name, arg>>)]

\* ------------------------------------------------------------------------
\* MapManager and the render engine
\* ------------------------------------------------------------------------
addDrawingControl(c, i) ==
    Call([c EXCEPT !.control[i] = TRUE], "addDrawingControl", i)

removeDrawingControl(c, i) ==
    Call([c EXCEPT !.control[i] = FALSE], "removeDrawingControl", i)

\* map.instance.pm.removeControls()
pmRemoveControls(c, i) ==
    Call([c EXCEPT !.control[i] = FALSE], "pm.removeControls", i)

enablePolygonDrawingTool(c, i) ==
    Call([c EXCEPT !.tool[i] = TRUE], "enablePolygonDrawingTool", i)

disablePolygonDrawingTool(c, i) ==
    Call([c EXCEPT !.tool[i] = FALSE], "disablePolygonDrawingTool", i)

showClonedDrawing(c, i) ==
    Call([c EXCEPT !.cloneShown[i] = TRUE], "showClonedDrawing", i)

hideClonedDrawing(c, i) ==
    Call([c EXCEPT !.cloneShown[i] = FALSE], "hideClonedDrawing", i)

\* The subscriber of showConfirmAreaButton$ set up in initMap, run on every
\* value polygonsCreated$ emits (polygonsCreated$ feeds showConfirmAreaButton$).
showConfirmAreaButtonNext(c, value) ==
    LET c1 == [c EXCEPT !.confirm = value] IN
    IF ~value /\ c1.action = UPLOAD
    THEN [removeDrawingControl(c1, c1.mvo.selectedMapIndex) EXCEPT !.showUploader = TRUE]
    ELSE c1

clearAllDrawings(c) ==
    showConfirmAreaButtonNext(
        Call([c EXCEPT !.drawing = {}, !.cloned = {}], "clearAllDrawings", -1),
        FALSE)

addGeoJsonToDrawing(c, features) ==
    showConfirmAreaButtonNext(
        Call([c EXCEPT !.drawing = @ \cup features, !.cloned = @ \cup features],
             "addGeoJsonToDrawing", -1),
        TRUE)

\* SessionService.setMapViewOptions
setMapViewOptions(c, value) ==
    Call([c EXCEPT !.session = <<value>>], "setMapViewOptions", -1)

\* mapViewOptions$.next(value)
mapViewOptionsNext(c, value) ==
    Call([c EXCEPT !.mvo = value], "mapViewOptions$.next", -1)

\* ------------------------------------------------------------------------
\* MapComponent
\* ------------------------------------------------------------------------
RECURSIVE addDrawingControlFrom(_, _)
addDrawingControlFrom(c, i) ==
    IF i >= NumMaps THEN c
    ELSE addDrawingControlFrom(
            IF c.mvo.selectedMapIndex = i
            THEN addDrawingControl(c, c.mvo.selectedMapIndex)
            ELSE showClonedDrawing(c, i),
            i + 1)

\* Variant of addDrawingControlToAllMaps that forgets the other maps.
addDrawingControlToSelectedMapOnly(c) ==
    addDrawingControl(c, c.mvo.selectedMapIndex)

addDrawingControlToAllMaps(c) == addDrawingControlFrom(c, 0)

\* Variant of changeMapCount that stores the count one too low.
changeMapCountOffByOne(c, mapCount) ==
    mapViewOptionsNext(c, [c.mvo EXCEPT !.numVisibleMaps = mapCount - 1])

changeMapCount(c, mapCount) ==
    mapViewOptionsNext(c, [c.mvo EXCEPT !.numVisibleMaps = mapCount])

\* Variant of selectMap that stores the one-based number of the map.
selectMapOneBased(c, mapIndex) ==
    LET previousMapIndex == c.mvo.selectedMapIndex IN
    IF previousMapIndex # mapIndex
    THEN LET c1 == mapViewOptionsNext(c, [c.mvo EXCEPT !.selectedMapIndex = mapIndex + 1])
             c2 == setMapViewOptions(c1, c1.mvo)
         IN  IF c2.action = DRAW \/ c2.confirm
             THEN hideClonedDrawing(
                    addDrawingControl(
                      showClonedDrawing(
                        removeDrawingControl(
                          disablePolygonDrawingTool(c2, previousMapIndex),
                          previousMapIndex),
                        previousMapIndex),
                      mapIndex),
                    mapIndex)
             ELSE c2
    ELSE c

\* Variant of selectMap without the test that the selection changed.
selectMapUnguarded(c, mapIndex) ==
    LET previousMapIndex == c.mvo.selectedMapIndex
        c1 == mapViewOptionsNext(c, [c.mvo EXCEPT !.selectedMapIndex = mapIndex])
        c2 == setMapViewOptions(c1, c1.mvo)
    IN  IF c2.action = DRAW \/ c2.confirm
        THEN hideClonedDrawing(
               addDrawingControl(
                 showClonedDrawing(
                   removeDrawingControl(
                     disablePolygonDrawingTool(c2, previousMapIndex),
                     previousMapIndex),
                   previousMapIndex),
                 mapIndex),
               mapIndex)
        ELSE c2

\* Variant of selectMap that moves the drawing control only while the Draw
\* action is selected, whether or not a shape awaits confirmation.
selectMapDrawOnly(c, mapIndex) ==
    LET previousMapIndex == c.mvo.selectedMapIndex IN
    IF previousMapIndex # mapIndex
    THEN LET c1 == mapViewOptionsNext(c, [c.mvo EXCEPT !.selectedMapIndex = mapIndex])
             c2 == setMapViewOptions(c1, c1.mvo)
         IN  IF c2.action = DRAW
             THEN hideClonedDrawing(
                    addDrawingControl(
                      showClonedDrawing(
                        removeDrawingControl(
                          disablePolygonDrawingTool(c2, previousMapIndex),
                          previousMapIndex),
                        previousMapIndex),
                      mapIndex),
                    mapIndex)
             ELSE c2
    ELSE c

\* Variant of selectMap that leaves the drawing control on the map selected
\* before.
selectMapControlLeft(c, mapIndex) ==
    LET previousMapIndex == c.mvo.selectedMapIndex IN
    IF previousMapIndex # mapIndex
    THEN LET c1 == mapViewOptionsNext(c, [c.mvo EXCEPT !.selectedMapIndex = mapIndex])
             c2 == setMapViewOptions(c1, c1.mvo)
         IN  IF c2.action = DRAW \/ c2.confirm
             THEN hideClonedDrawing(
                    addDrawingControl(
                      showClonedDrawing(
                        disablePolygonDrawingTool(c2, previousMapIndex),
                        previousMapIndex),
                      mapIndex),
                    mapIndex)
             ELSE c2
    ELSE c

selectMap(c, mapIndex) ==
    LET previousMapIndex == c.mvo.selectedMapIndex IN
    IF previousMapIndex # mapIndex
    THEN LET c1 == mapViewOptionsNext(c, [c.mvo EXCEPT !.selectedMapIndex = mapIndex])
             c2 == setMapViewOptions(c1, c1.mvo)
         IN  IF c2.action = DRAW \/ c2.confirm
             THEN hideClonedDrawing(
                    addDrawingControl(
                      showClonedDrawing(
                        removeDrawingControl(
                          disablePolygonDrawingTool(c2, previousMapIndex),
                          previousMapIndex),
                        previousMapIndex),
                      mapIndex),
                    mapIndex)
             ELSE c2
    ELSE c

\* Variant of onAreaCreationActionChange whose upload branch leaves the
\* polygon drawing tool as it is.
onAreaCreationActionChangeToolKept(c, option) ==
    LET selectedMapIndex == c.mvo.selectedMapIndex
        c1 == [c EXCEPT !.action = option]
        c2 == IF option = DRAW
              THEN changeMapCount(
                     [enablePolygonDrawingTool(addDrawingControlToAllMaps(c1), selectedMapIndex)
                        EXCEPT !.showUploader = FALSE],
                     1)
              ELSE c1
    IN  IF option = UPLOAD
        THEN LET c3 == IF ~c2.confirm THEN pmRemoveControls(c2, selectedMapIndex) ELSE c2
             IN  [c3 EXCEPT !.showUploader = ~c3.showUploader]
        ELSE c2

\* Variant of onAreaCreationActionChange whose upload branch removes the
\* drawing control whether or not a shape awaits confirmation.
onAreaCreationActionChangeControlRemoved(c, option) ==
    LET selectedMapIndex == c.mvo.selectedMapIndex
        c1 == [c EXCEPT !.action = option]
        c2 == IF option = DRAW
              THEN changeMapCount(
                     [enablePolygonDrawingTool(addDrawingControlToAllMaps(c1), selectedMapIndex)
                        EXCEPT !.showUploader = FALSE],
                     1)
              ELSE c1
    IN  IF option = UPLOAD
        THEN LET c3 == pmRemoveControls(c2, selectedMapIndex)
                 c4 == disablePolygonDrawingTool(c3, selectedMapIndex)
             IN  [c4 EXCEPT !.showUploader = ~c4.showUploader]
        ELSE c2

onAreaCreationActionChange(c, option) ==
    LET selectedMapIndex == c.mvo.selectedMapIndex
        c1 == [c EXCEPT !.action = option]
        c2 == IF option = DRAW
              THEN changeMapCount(
                     [enablePolygonDrawingTool(addDrawingControlToAllMaps(c1), selectedMapIndex)
                        EXCEPT !.showUploader = FALSE],
                     1)
              ELSE c1
    IN  IF option = UPLOAD
        THEN LET c3 == IF ~c2.confirm THEN pmRemoveControls(c2, selectedMapIndex) ELSE c2
                 c4 == disablePolygonDrawingTool(c3, selectedMapIndex)
             IN  [c4 EXCEPT !.showUploader = ~c4.showUploader]
        ELSE c2

\* Variant of cancelAreaCreationAction that does not remove the drawing
\* control of the selected map.
cancelAreaCreationActionControlKept(c) ==
    LET selectedMapIndex == c.mvo.selectedMapIndex
        c1 == clearAllDrawings(disablePolygonDrawingTool(c, selectedMapIndex))
    IN  [c1 EXCEPT !.action = NONE, !.showUploader = FALSE]

cancelAreaCreationAction(c) ==
    LET selectedMapIndex == c.mvo.selectedMapIndex
        c1 == clearAllDrawings(
                disablePolygonDrawingTool(
                  removeDrawingControl(c, selectedMapIndex),
                  selectedMapIndex))
    IN  [c1 EXCEPT !.action = NONE, !.showUploader = FALSE]

showUploadError(c) == Call(c, "snackbar:Not a valid shapefile", -1)

\* Variant of loadAreaParsed that leaves the upload panel as it is.
loadAreaParsedPanelKept(c, file) ==
    LET geojson == parseZip(file) IN
    IF geojson.throws
    THEN showUploadError(c)
    ELSE IF geojson.type = "FeatureCollection"
         THEN addDrawingControlToAllMaps(addGeoJsonToDrawing(c, geojson.features))
         ELSE showUploadError(c)

\* Variant of loadAreaParsed without the test of the parsed value's type.
loadAreaParsedAnyType(c, file) ==
    LET geojson == parseZip(file) IN
    IF geojson.throws
    THEN showUploadError(c)
    ELSE addDrawingControlToAllMaps(
           [addGeoJsonToDrawing(c, geojson.features) EXCEPT !.showUploader = FALSE])

\* The part of loadArea that runs once the archive is read: parse, then
\* install the geometry or report the error.
loadAreaParsed(c, file) ==
    LET geojson == parseZip(file) IN
    IF geojson.throws
    THEN showUploadError(c)
    ELSE IF geojson.type = "FeatureCollection"
         THEN addDrawingControlToAllMaps(
                [addGeoJsonToDrawing(c, geojson.features) EXCEPT !.showUploader = FALSE])
         ELSE showUploadError(c)

\* The subscriber of sessionService.mapViewOptions$ (take(1)), for a value
\* the session store emits: <<>> is null.
onSessionMapViewOptions(c, value) ==
    IF c.subs.mapViewOptions # "subscribed" THEN c
    ELSE [ (IF value # <<>> THEN mapViewOptionsNext(c, value[1]) ELSE c)
             EXCEPT !.subs.mapViewOptions = "completed" ]

\* config.find(boundary => boundary.boundary_name === name): the first entry
\* of the catalog with that name, <<>> if there is none.
findBoundary(catalog, name) ==
    LET hits == { k \in 1 .. Len(catalog) : catalog[k].boundary_name = name } IN
    IF hits = {} THEN <<>>
    ELSE << catalog[CHOOSE k \in hits : \A j \in hits : k <= j] >>

onBoundaryConfigKeepsPersisted(c, config) ==
    IF ~c.subs.boundaryConfig \/ config = <<>> THEN c
    ELSE [c EXCEPT !.mapConfigs =
            [i \in MapIndices |->
               LET found == findBoundary(config[1], @[i].boundaryLayerConfig.boundary_name)
               IN  [@[i] EXCEPT !.boundaryLayerConfig =
                       IF found # <<>> THEN @ ELSE NONE_BOUNDARY_CONFIG]]]

\* The subscriber of boundaryConfig$ (filtered to non-null values).
onBoundaryConfig(c, config) ==
    IF ~c.subs.boundaryConfig \/ config = <<>> THEN c
    ELSE [c EXCEPT !.mapConfigs =
            [i \in MapIndices |->
               LET found == findBoundary(config[1], @[i].boundaryLayerConfig.boundary_name)
               IN  [@[i] EXCEPT !.boundaryLayerConfig =
                       IF found # <<>> THEN found[1] ELSE NONE_BOUNDARY_CONFIG]]]

onSessionMapConfigsRepeated(c, value, boundary) ==
    IF c.subs.mapConfigs = "none" THEN c
    ELSE LET c1 == IF value # <<>>
                   THEN [c EXCEPT !.mapConfigs =
                           [i \in MapIndices |->
                              IF i + 1 <= Len(value[1]) THEN value[1][i + 1] ELSE @[i]]]
                   ELSE c
             c2 == [c1 EXCEPT !.subs.mapConfigs = "completed",
                              !.subs.boundaryConfig = TRUE]
         IN  onBoundaryConfig(c2, boundary)

\* The subscriber of sessionService.mapConfigs$ (take(1)); it ends by
\* subscribing to boundaryConfig$, which hands over the catalog it holds.
onSessionMapConfigs(c, value, boundary) ==
    IF c.subs.mapConfigs # "subscribed" THEN c
    ELSE LET c1 == IF value # <<>>
                   THEN [c EXCEPT !.mapConfigs =
                           [i \in MapIndices |->
                              IF i + 1 <= Len(value[1]) THEN value[1][i + 1] ELSE @[i]]]
                   ELSE c
             c2 == [c1 EXCEPT !.subs.mapConfigs = "completed",
                              !.subs.boundaryConfig = TRUE]
         IN  onBoundaryConfig(c2, boundary)

\* restoreSession: both subscriptions get the value the session store holds.
restoreSession(c, boundary) ==
    LET c0 == [c EXCEPT !.subs.mapViewOptions = "subscribed",
                        !.subs.mapConfigs = "subscribed"]
    IN  onSessionMapConfigs(onSessionMapViewOptions(c0, c0.session),
                            c0.sessionConfigs, boundary)

\* Variant of isMapVisible whose two-map view shows the first pair whatever
\* is selected.
isMapVisibleFirstPair(index) ==
    IF index = mapViewOptions.selectedMapIndex THEN TRUE
    ELSE CASE mapViewOptions.numVisibleMaps = 4 -> TRUE
           [] mapViewOptions.numVisibleMaps = 1 -> FALSE
           [] OTHER -> (index \div 2) = 0

\* Variant of isMapVisible that shows every map.
isMapVisibleAlways(index) == TRUE

isMapVisible(index) ==
    IF index = mapViewOptions.selectedMapIndex THEN TRUE
    ELSE CASE mapViewOptions.numVisibleMaps = 4 -> TRUE
           [] mapViewOptions.numVisibleMaps = 1 -> FALSE
           [] OTHER -> (mapViewOptions.selectedMapIndex \div 2) = (index \div 2)

\* Variant of mapRowHeight that compares the selected index itself, not its
\* row, with the row index.
mapRowHeightByIndex(index) ==
    CASE mapViewOptions.numVisibleMaps = 4 -> "50%"
      [] OTHER -> IF mapViewOptions.selectedMapIndex = index THEN "100%" ELSE "0%"

mapRowHeight(index) ==
    CASE mapViewOptions.numVisibleMaps = 4 -> "50%"
      [] OTHER -> IF (mapViewOptions.selectedMapIndex \div 2) = index THEN "100%" ELSE "0%"

\* Variant of updateLegendWithColormap that asks the map service for the
\* sentinel as for any other id.
updateLegendWithColormapNoneFetched(c, mapIndex, colormap) ==
    LET id == IF colormap = UndefinedColormap THEN DEFAULT_COLORMAP ELSE colormap
    IN [Call(c, "getColormap", mapIndex)
          EXCEPT !.fetches = Append(@, [map |-> mapIndex, colormap |-> id])]

\* Variant of updateLegendWithColormap that drops the requests in flight for
\* the map before it goes on.
updateLegendWithColormapCancelling(c, mapIndex, colormap) ==
    LET NotOfMap(fetch) == fetch.map # mapIndex
        c1 == [c EXCEPT !.fetches = SelectSeq(@, NotOfMap)]
    IN IF colormap # UndefinedColormap /\ colormap = NONE_COLORMAP
       THEN [c1 EXCEPT !.legends[mapIndex] = UndefinedLegend]
       ELSE LET id == IF colormap = UndefinedColormap THEN DEFAULT_COLORMAP ELSE colormap
            IN [Call(c1, "getColormap", mapIndex)
                  EXCEPT !.fetches = Append(@, [map |-> mapIndex, colormap |-> id])]

\* updateLegendWithColormap(map, colormap): a request to the map service is
\* in flight from getColormap until its answer arrives.
updateLegendWithColormap(c, mapIndex, colormap) ==
    IF colormap # UndefinedColormap /\ colormap = NONE_COLORMAP
    THEN [c EXCEPT !.legends[mapIndex] = UndefinedLegend]
    ELSE LET id == IF colormap = UndefinedColormap THEN DEFAULT_COLORMAP ELSE colormap
         IN [Call(c, "getColormap", mapIndex)
               EXCEPT !.fetches = Append(@, [map |-> mapIndex, colormap |-> id])]

\* changeConditionsLayer(map)
changeConditionsLayer(c, mapIndex) ==
    updateLegendWithColormap(Call(c, "changeConditionsLayer", mapIndex), mapIndex,
                             c.mapConfigs[mapIndex].dataLayerConfig.colormap)

\* The subscriber of getColormap(...).pipe(take(1)) for request k.
onColormapConfig(c, k) ==
    [c EXCEPT !.legends[c.fetches[k].map] = colormapConfigToLegend(c.fetches[k].colormap),
              !.fetches = SubSeq(@, 1, k - 1) \o SubSeq(@, k + 1, Len(@))]

\* initMap for the maps from mapIndex on: the subscriber of
\* showConfirmAreaButton$ runs with the current value and the legend is
\* initialized from the colormap of the map's data layer.
RECURSIVE initMapsFrom(_, _)
initMapsFrom(c, mapIndex) ==
    IF mapIndex \notin MapIndices THEN c
    ELSE initMapsFrom(
           updateLegendWithColormap(showConfirmAreaButtonNext(c, c.confirm), mapIndex,
                                    c.mapConfigs[mapIndex].dataLayerConfig.colormap),
           mapIndex + 1)

\* ------------------------------------------------------------------------
\* The state machine
\* ------------------------------------------------------------------------
Op(name, arg, file) == [op |-> name, arg |-> arg, file |-> file]

Commit(c, op) ==
    /\ mapViewOptions' = c.mvo
    /\ selectedAreaCreationAction' = c.action
    /\ showUploader' = c.showUploader
    /\ showConfirmAreaButton' = c.confirm
    /\ control' = c.control
    /\ tool' = c.tool
    /\ cloneShown' = c.cloneShown
    /\ drawing' = c.drawing
    /\ cloned' = c.cloned
    /\ sessionViewOptions' = c.session
    /\ sessionMapConfigs' = c.sessionConfigs
    /\ mapConfigs' = c.mapConfigs
    /\ subs' = c.subs
    /\ legends' = c.legends
    /\ colormapFetches' = c.fetches
    /\ calls' = c.calls
    /\ lastOp' = op

\* The component as its field initialisers and its constructor leave it.
Constructed ==
    /\ phase = "constructed"
    /\ mapViewOptions = defaultMapViewOptions
    /\ selectedAreaCreationAction = NONE
    /\ showUploader = FALSE
    /\ showConfirmAreaButton = FALSE
    /\ control = [i \in MapIndices |-> FALSE]
    /\ tool = [i \in MapIndices |-> FALSE]
    /\ cloneShown = [i \in MapIndices |-> FALSE]
    /\ drawing = {}
    /\ cloned = {}
    /\ mapConfigs = [i \in MapIndices |-> defaultMapConfig]
    /\ subs = [mapViewOptions |-> "none", mapConfigs |-> "none", boundaryConfig |-> FALSE]
    /\ legends = [i \in MapIndices |-> UndefinedLegend]
    /\ colormapFetches = <<>>
    /\ planRequests = <<>>
    /\ loadingIndicators = [layerName \in {"existing_projects"} |-> TRUE]
    /\ existingProjects = "null"
    /\ conditionData = <<NONE_DATA_LAYER_CONFIG>>
    /\ expanded = {}
    /\ pending = [f \in Archives |-> 0]
    /\ lastOp = Op("constructor", -1, NoFile)
    /\ calls = <<>>

\* The workspace of the area creation: any view options persisted, nothing
\* else in the session store, no catalog, region or conditions loaded.
Init ==
    /\ Constructed
    /\ sessionViewOptions \in PersistedViewOptions
    /\ sessionMapConfigs = <<>>
    /\ boundaryConfig = <<>>
    /\ selectedRegion = "none"
    /\ conditionsConfig = <<>>

NgOnInit ==
    /\ phase = "constructed"
    /\ phase' = "initialized"
    /\ Commit(restoreSession(Comp, boundaryConfig), Op("ngOnInit", -1, NoFile))
    /\ UNCHANGED <<pending, boundaryConfig, orchVars, treeVars>>

\* initMap for every map.
NgAfterViewInit ==
    /\ phase = "initialized"
    /\ phase' = "running"
    /\ Commit(initMapsFrom(Comp, 0), Op("ngAfterViewInit", -1, NoFile))
    /\ UNCHANGED <<pending, boundaryConfig, orchVars, treeVars>>

SelectMap(mapIndex) ==
    /\ phase = "running"
    /\ Commit(selectMap(Comp, mapIndex), Op("selectMap", mapIndex, NoFile))
    /\ UNCHANGED <<phase, pending, boundaryConfig, orchVars, treeVars>>

ChangeMapCount(mapCount) ==
    /\ phase = "running"
    /\ Commit(changeMapCount(Comp, mapCount), Op("changeMapCount", mapCount, NoFile))
    /\ UNCHANGED <<phase, pending, boundaryConfig, orchVars, treeVars>>

OnAreaCreationActionChange(option) ==
    /\ phase = "running"
    /\ Commit(onAreaCreationActionChange(Comp, option),
              Op("onAreaCreationActionChange", option, NoFile))
    /\ UNCHANGED <<phase, pending, boundaryConfig, orchVars, treeVars>>

CancelAreaCreationAction ==
    /\ phase = "running"
    /\ Commit(cancelAreaCreationAction(Comp), Op("cancelAreaCreationAction", -1, NoFile))
    /\ UNCHANGED <<phase, pending, boundaryConfig, orchVars, treeVars>>

\* The user finishes a polygon with the polygon tool of the selected map
\* (pm:create): the shape joins the drawing layer and polygonsCreated$ emits
\* true.  Whether the tool stays armed afterwards is up to the render engine.
PolygonDrawn(staysArmed) ==
    /\ phase = "running"
    /\ tool[mapViewOptions.selectedMapIndex]
    /\ LET i  == mapViewOptions.selectedMapIndex
           c1 == [Comp EXCEPT !.drawing = @ \cup {DrawnPolygon},
                              !.cloned = @ \cup {DrawnPolygon},
                              !.tool[i] = staysArmed]
       IN  Commit(showConfirmAreaButtonNext(c1, TRUE), Op("polygonDrawn", -1, NoFile))
    /\ UNCHANGED <<phase, pending, boundaryConfig, orchVars, treeVars>>

\* The number of archive reads in flight.
RECURSIVE SumOver(_, _)
SumOver(f, S) ==
    IF S = {} THEN 0
    ELSE LET x == CHOOSE y \in S : TRUE IN f[x] + SumOver(f, S \ {x})

InFlight == SumOver(pending, Archives)

\* loadArea up to its first await: the upload panel hands over a file (or
\* nothing) and the read starts.
LoadAreaStart(file) ==
    /\ phase = "running"
    /\ showUploader
    /\ IF file = NoFile
       THEN pending' = pending
       ELSE /\ InFlight < MaxInFlight
            /\ pending' = [pending EXCEPT ![file] = @ + 1]
    /\ Commit(Comp, Op("loadArea", -1, file))
    /\ UNCHANGED <<phase, boundaryConfig, orchVars, treeVars>>

\* loadArea after its awaits, for one of the reads of archive file in flight.
LoadAreaDone(file) ==
    /\ phase = "running"
    /\ pending[file] > 0
    /\ pending' = [pending EXCEPT ![file] = @ - 1]
    /\ Commit(loadAreaParsed(Comp, file), Op("loadAreaDone", -1, file))
    /\ UNCHANGED <<phase, boundaryConfig, orchVars, treeVars>>

Next ==
    \/ NgOnInit
    \/ NgAfterViewInit
    \/ \E mapIndex \in MapIndices : SelectMap(mapIndex)
    \/ \E mapCount \in MapCounts : ChangeMapCount(mapCount)
    \/ \E option \in AreaCreationAction \ {NONE} : OnAreaCreationActionChange(option)
    \/ CancelAreaCreationAction
    \/ \E staysArmed \in BOOLEAN : PolygonDrawn(staysArmed)
    \/ \E file \in Archives \cup {NoFile} : LoadAreaStart(file)
    \/ \E file \in Archives : LoadAreaDone(file)

Spec == Init /\ [][Next]_vars

\* ------------------------------------------------------------------------
\* The creation of plans and the loading indicators
\* ------------------------------------------------------------------------
\* The subscriber createPlan attaches to selectedRegion$, for one value of the
\* region.  req.subscribed: the subscription is alive (until destroy$).
createPlanSubscriber(req, region) ==
    IF ~req.subscribed THEN req
    ELSE IF region = "none"
    THEN [req EXCEPT !.notices = Append(@, NoRegionNotice)]
    ELSE [req EXCEPT !.calls = Append(@,
            [ name         |-> req.name,
              ownerId      |-> "tempUserId",
              region       |-> region,
              planningArea |-> req.shape,
              status       |-> "pending" ])]

\* createPlan(name, shape): subscribes to region$, which hands over
\* the region selected at that time (issuedWith keeps it for the record).
createPlan(requests, name, shape, region) ==
    Append(requests,
           createPlanSubscriber([ name |-> name, shape |-> shape,
                                  issuedWith |-> region,
                                  subscribed |-> TRUE,
                                  calls |-> <<>>, notices |-> <<>> ],
                                region))

\* The calls of the plan service made so far, over all requests.
RECURSIVE PlanCalls(_)
PlanCalls(requests) ==
    IF requests = <<>> THEN 0
    ELSE Len(requests[1].calls) + PlanCalls(Tail(requests))

Subscribed(requests) == { k \in DOMAIN requests : requests[k].subscribed }

\* ngOnDestroy: the configs of the maps go to the session store (destroy$
\* ends the subscriptions of the component).
ngOnDestroy(c) ==
    Call([c EXCEPT !.sessionConfigs = << [i \in 1 .. NumMaps |-> c.mapConfigs[i - 1]] >>],
         "setMapConfigs", -1)

\* The dialog of a new plan closes with a name.
OpenCreatePlanDialog(name, shape) ==
    /\ phase = "running"
    /\ Len(planRequests) < MaxPlanRequests
    /\ PlanCalls(planRequests) < MaxPlanCalls
    /\ planRequests' = createPlan(planRequests, name, shape, selectedRegion)
    /\ lastOp' = Op("createPlan", -1, NoFile)
    /\ calls' = <<>>
    /\ UNCHANGED <<phase, pending, compVars, boundaryConfig, selectedRegion,
                   loadingIndicators, existingProjects, treeVars>>

\* The region dropdown changes the region of the session: region$ emits it to
\* every subscriber alive.
SetRegion(region) ==
    /\ region # selectedRegion
    /\ PlanCalls(planRequests) + Cardinality(Subscribed(planRequests)) <= MaxPlanCalls
    /\ selectedRegion' = region
    /\ planRequests' = [k \in DOMAIN planRequests |->
                          createPlanSubscriber(planRequests[k], region)]
    /\ lastOp' = Op("setRegion", -1, NoFile)
    /\ calls' = <<>>
    /\ UNCHANGED <<phase, pending, compVars, boundaryConfig,
                   loadingIndicators, existingProjects, treeVars>>

\* The plan service answers call j of request k with an error.
PlanServiceError(k, j) ==
    /\ planRequests[k].calls[j].status = "pending"
    /\ planRequests' = [planRequests EXCEPT ![k].calls[j].status = "failed",
                                            ![k].notices = Append(@, BackendErrorNotice)]
    /\ lastOp' = Op("createPlanError", -1, NoFile)
    /\ calls' = <<>>
    /\ UNCHANGED <<phase, pending, compVars, boundaryConfig, selectedRegion,
                   loadingIndicators, existingProjects, treeVars>>

\* The plan service answers call j of request k with the plan: the router
\* leaves the map, which destroys the component and ends its subscriptions.
PlanServiceNext(k, j) ==
    /\ planRequests[k].calls[j].status = "pending"
    /\ planRequests' = [i \in DOMAIN planRequests |->
                          [ (IF i = k THEN [planRequests[i] EXCEPT !.calls[j].status = "created"]
                                      ELSE planRequests[i])
                              EXCEPT !.subscribed = FALSE ]]
    /\ phase' = "destroyed"
    /\ Commit(ngOnDestroy(Comp), Op("createPlanNext", -1, NoFile))
    /\ UNCHANGED <<pending, boundaryConfig, selectedRegion,
                   loadingIndicators, existingProjects, treeVars>>

\* this.loadingIndicators[layerName] = value
setLoadingIndicator(indicators, layerName, value) ==
    [l \in DOMAIN indicators \cup {layerName} |->
        IF l = layerName THEN value ELSE indicators[l]]

startLoadingLayerCallback(indicators, layerName) ==
    setLoadingIndicator(indicators, layerName, TRUE)

doneLoadingLayerCallbackAll(indicators, layerName) ==
    [l \in DOMAIN indicators \cup {layerName} |-> FALSE]

doneLoadingLayerCallback(indicators, layerName) ==
    setLoadingIndicator(indicators, layerName, FALSE)

\* The subscriber of mapService.getExistingProjects().
onExistingProjects(indicators) ==
    setLoadingIndicator(indicators, "existing_projects", FALSE)

StartLoadingLayer(layerName) ==
    /\ phase = "running"
    /\ loadingIndicators' = startLoadingLayerCallback(loadingIndicators, layerName)
    /\ lastOp' = Op("startLoadingLayerCallback", -1, layerName)
    /\ calls' = <<>>
    /\ UNCHANGED <<phase, pending, compVars, boundaryConfig, selectedRegion,
                   planRequests, existingProjects, treeVars>>

DoneLoadingLayer(layerName) ==
    /\ phase = "running"
    /\ layerName \in DOMAIN loadingIndicators
    /\ loadingIndicators[layerName]
    /\ loadingIndicators' = doneLoadingLayerCallback(loadingIndicators, layerName)
    /\ lastOp' = Op("doneLoadingLayerCallback", -1, layerName)
    /\ calls' = <<>>
    /\ UNCHANGED <<phase, pending, compVars, boundaryConfig, selectedRegion,
                   planRequests, existingProjects, treeVars>>

\* The fetch of the existing projects, started by the constructor, completes.
ExistingProjectsLoaded ==
    /\ phase # "destroyed"
    /\ existingProjects = "null"
    /\ existingProjects' = "projects"
    /\ loadingIndicators' = onExistingProjects(loadingIndicators)
    /\ lastOp' = Op("getExistingProjects", -1, NoFile)
    /\ calls' = <<>>
    /\ UNCHANGED <<phase, pending, compVars, boundaryConfig, selectedRegion,
                   planRequests, treeVars>>

InitOrchestrator ==
    /\ Constructed
    /\ sessionViewOptions = <<>>
    /\ sessionMapConfigs = <<>>
    /\ boundaryConfig = <<>>
    /\ selectedRegion \in {"none"} \cup Regions
    /\ conditionsConfig = <<>>

NextOrchestrator ==
    \/ NgOnInit
    \/ NgAfterViewInit
    \/ \E input \in PlanInputs : OpenCreatePlanDialog(input.name, input.shape)
    \/ \E region \in Regions : SetRegion(region)
    \/ \E k \in DOMAIN planRequests :
          \E j \in DOMAIN planRequests[k].calls : PlanServiceError(k, j)
    \/ \E k \in DOMAIN planRequests :
          \E j \in DOMAIN planRequests[k].calls : PlanServiceNext(k, j)
    \/ \E layerName \in LayerNames : StartLoadingLayer(layerName)
    \/ \E layerName \in LayerNames : DoneLoadingLayer(layerName)
    \/ ExistingProjectsLoaded

SpecOrchestrator == InitOrchestrator /\ [][NextOrchestrator]_vars

\* ------------------------------------------------------------------------
\* The condition tree
\* ------------------------------------------------------------------------
\* A node of the tree is named by its path: <<2>> is the second top-level
\* node, <<2, 1>> its first child, and so on.
RECURSIVE nodeAt(_, _)
nodeAt(nodes, path) ==
    IF Len(path) = 1 THEN nodes[path[1]]
    ELSE nodeAt(nodes[path[1]].children, Tail(path))

RECURSIVE PathsFrom(_, _)
PathsFrom(nodes, prefix) ==
    UNION { {Append(prefix, k)} \cup PathsFrom(nodes[k].children, Append(prefix, k)) :
            k \in DOMAIN nodes }

Paths(data) == PathsFrom(data, <<>>)

\* unstyleAllNodes(node): the node and everything below it.
RECURSIVE unstyleNode(_)
unstyleNode(node) ==
    [node EXCEPT !.styleDisabled = "false",
                 !.children = [k \in DOMAIN @ |-> unstyleNode(@[k])]]

\* unstyleAllNodes(): every node of conditionDataSource.data.
unstyleAllNodes(data) == [k \in DOMAIN data |-> unstyleNode(data[k])]

styleDescendantsDisabledChildrenOnly(node) ==
    [node EXCEPT !.children =
        [k \in DOMAIN @ |-> [@[k] EXCEPT !.styleDisabled = "true"]]]

RECURSIVE styleDescendantsDisabled(_)
styleDescendantsDisabled(node) ==
    [node EXCEPT !.children =
        [k \in DOMAIN @ |->
            styleDescendantsDisabled([@[k] EXCEPT !.styleDisabled = "true"])]]

\* styleDescendantsDisabled applied to the node at a path.
RECURSIVE styleAt(_, _)
styleAt(nodes, path) ==
    IF Len(path) = 1
    THEN [nodes EXCEPT ![path[1]] = styleDescendantsDisabled(@)]
    ELSE [nodes EXCEPT ![path[1]].children = styleAt(@, Tail(path))]

onSelectWithoutUnstyle(data, path) == styleAt(data, path)

onSelect(data, path) == styleAt(unstyleAllNodes(data), path)

\* filepath?.concat('_normalized')
normalizedFilepath(filepath) == filepath \o "_normalized"

\* The pillars of a config that pass filter(pillar => pillar.display).
RECURSIVE displayed(_)
displayed(pillars) ==
    IF pillars = <<>> THEN <<>>
    ELSE IF pillars[1].display THEN <<pillars[1]>> \o displayed(Tail(pillars))
    ELSE displayed(Tail(pillars))

\* Variant of rawBranch whose pillars and elements can be selected.
rawBranchSelectable(config) ==
    [ filepath      |-> config.filepath,
      normalized    |-> FALSE,
      disableSelect |-> TRUE,
      styleDisabled |-> "unset",
      colormap      |-> config.colormap,
      children      |->
        LET pillars == displayed(config.pillars) IN
        [i \in DOMAIN pillars |->
           [ filepath      |-> pillars[i].filepath,
             normalized    |-> FALSE,
             disableSelect |-> FALSE,
             styleDisabled |-> "unset",
             colormap      |-> pillars[i].colormap,
             children      |->
               [j \in DOMAIN pillars[i].elements |->
                  [ filepath      |-> pillars[i].elements[j].filepath,
                    normalized    |-> FALSE,
                    disableSelect |-> FALSE,
                    styleDisabled |-> "unset",
                    colormap      |-> pillars[i].elements[j].colormap,
                    children      |-> pillars[i].elements[j].metrics ]] ]] ]

\* The raw branch: the metrics are the objects of the config themselves.
rawBranch(config) ==
    [ filepath      |-> config.filepath,
      normalized    |-> FALSE,
      disableSelect |-> TRUE,
      styleDisabled |-> "unset",
      colormap      |-> config.colormap,
      children      |->
        LET pillars == displayed(config.pillars) IN
        [i \in DOMAIN pillars |->
           [ filepath      |-> pillars[i].filepath,
             normalized    |-> FALSE,
             disableSelect |-> TRUE,
             styleDisabled |-> "unset",
             colormap      |-> pillars[i].colormap,
             children      |->
               [j \in DOMAIN pillars[i].elements |->
                  [ filepath      |-> pillars[i].elements[j].filepath,
                    normalized    |-> FALSE,
                    disableSelect |-> TRUE,
                    styleDisabled |-> "unset",
                    colormap      |-> pillars[i].elements[j].colormap,
                    children      |-> pillars[i].elements[j].metrics ]] ]] ]

normalizedBranchUnfiltered(config) ==
    [ filepath      |-> normalizedFilepath(config.filepath),
      normalized    |-> TRUE,
      disableSelect |-> TRUE,
      styleDisabled |-> "unset",
      colormap      |-> config.colormap,
      children      |->
        LET pillars == config.pillars IN
        [i \in DOMAIN pillars |->
           [ filepath      |-> normalizedFilepath(pillars[i].filepath),
             normalized    |-> TRUE,
             disableSelect |-> FALSE,
             styleDisabled |-> "unset",
             colormap      |-> pillars[i].colormap,
             children      |->
               [j \in DOMAIN pillars[i].elements |->
                  [ filepath      |-> normalizedFilepath(pillars[i].elements[j].filepath),
                    normalized    |-> TRUE,
                    disableSelect |-> FALSE,
                    styleDisabled |-> "unset",
                    colormap      |-> pillars[i].elements[j].colormap,
                    children      |->
                      [m \in DOMAIN pillars[i].elements[j].metrics |->
                         [ pillars[i].elements[j].metrics[m] EXCEPT
                             !.filepath = normalizedFilepath(@),
                             !.normalized = TRUE ]] ]] ]] ]

\* The normalized branch: copies of the pillars, elements and metrics of the
\* config, which keep the fields the copy does not overwrite.
normalizedBranch(config) ==
    [ filepath      |-> normalizedFilepath(config.filepath),
      normalized    |-> TRUE,
      disableSelect |-> TRUE,
      styleDisabled |-> "unset",
      colormap      |-> config.colormap,
      children      |->
        LET pillars == displayed(config.pillars) IN
        [i \in DOMAIN pillars |->
           [ filepath      |-> normalizedFilepath(pillars[i].filepath),
             normalized    |-> TRUE,
             disableSelect |-> FALSE,
             styleDisabled |-> "unset",
             colormap      |-> pillars[i].colormap,
             children      |->
               [j \in DOMAIN pillars[i].elements |->
                  [ filepath      |-> normalizedFilepath(pillars[i].elements[j].filepath),
                    normalized    |-> TRUE,
                    disableSelect |-> FALSE,
                    styleDisabled |-> "unset",
                    colormap      |-> pillars[i].elements[j].colormap,
                    children      |->
                      [m \in DOMAIN pillars[i].elements[j].metrics |->
                         [ pillars[i].elements[j].metrics[m] EXCEPT
                             !.filepath = normalizedFilepath(@),
                             !.normalized = TRUE ]] ]] ]] ]

conditionsConfigToDataHiddenKept(config, none) ==
    << none, rawBranch(config), normalizedBranchUnfiltered(config) >>

\* conditionsConfigToData(config); none is NONE_DATA_LAYER_CONFIG, the one
\* object every tree starts with, in the state it is in.
conditionsConfigToData(config, none) ==
    << none, rawBranch(config), normalizedBranch(config) >>

\* The paths of the nodes in the order the nested loops of
\* findAndRevealNodeWithFilepath visit them, down to the given number of levels.
RECURSIVE searchFrom(_, _, _, _)
searchFrom(nodes, k, prefix, levels) ==
    IF levels = 0 \/ k > Len(nodes) THEN <<>>
    ELSE <<Append(prefix, k)>>
         \o searchFrom(nodes[k].children, 1, Append(prefix, k), levels - 1)
         \o searchFrom(nodes, k + 1, prefix, levels)

findAndRevealNodeWithFilepathInnermostFirst(data, filepath) ==
    LET order == searchFrom(data, 1, <<>>, SearchedLevels)
        hits  == { n \in DOMAIN order : nodeAt(data, order[n]).filepath = filepath }
    IN  IF filepath \in {UndefinedFilepath, ""} \/ filepath = data[1].filepath \/ hits = {}
        THEN [path |-> <<1>>, expands |-> <<>>]
        ELSE LET found == order[CHOOSE n \in hits : \A o \in hits : n <= o]
             IN  [ path    |-> found,
                   expands |-> [n \in 1 .. Len(found) - 1 |->
                                  SubSeq(found, 1, Len(found) - n)] ]

\* findAndRevealNodeWithFilepath(filepath): the path of the node returned
\* (<<1>> is NONE_DATA_LAYER_CONFIG) and the nodes conditionTreeControl.expand
\* is called with, in the order of the calls.
findAndRevealNodeWithFilepath(data, filepath) ==
    LET order == searchFrom(data, 1, <<>>, SearchedLevels)
        hits  == { n \in DOMAIN order : nodeAt(data, order[n]).filepath = filepath }
    IN  IF filepath \in {UndefinedFilepath, ""} \/ filepath = data[1].filepath \/ hits = {}
        THEN [path |-> <<1>>, expands |-> <<>>]
        ELSE LET found == order[CHOOSE n \in hits : \A o \in hits : n <= o]
             IN  [ path    |-> found,
                   expands |-> [n \in 1 .. Len(found) - 1 |-> SubSeq(found, 1, n)] ]

\* The metrics of a config are the raw metrics of the tree built from it:
\* what a handler writes into the latter shows in the former.
sharedMetrics(config, data) ==
    [config EXCEPT !.pillars =
        [i \in DOMAIN @ |->
           IF ~@[i].display THEN @[i]
           ELSE LET pos == Len(displayed(SubSeq(config.pillars, 1, i))) IN
                [@[i] EXCEPT !.elements =
                    [j \in DOMAIN @ |->
                       [@[j] EXCEPT !.metrics = data[2].children[pos].children[j].children]]]]]

\* Variant of the subscriber of conditionsConfig$ that leaves the data layers
\* of the maps as they are.
onConditionsConfigNotResolved(c, config, none) == c

\* The subscriber of conditionsConfig$ (constructor): the tree is rebuilt and
\* the data layer of every map is looked up in it.
onConditionsConfig(c, config, none) ==
    LET data == conditionsConfigToData(config, none) IN
    [c EXCEPT !.mapConfigs =
        [i \in MapIndices |->
           [@[i] EXCEPT !.dataLayerConfig =
               nodeAt(data, findAndRevealNodeWithFilepath(data, @.filepath).path)]]]

\* The nodes the subscriber of conditionsConfig$ asks the tree control to expand.
revealed(c, data) ==
    UNION { LET r == findAndRevealNodeWithFilepath(data, c.mapConfigs[i].dataLayerConfig.filepath)
            IN  { r.expands[n] : n \in DOMAIN r.expands } : i \in MapIndices }

\* The map service emits a conditions config it has just loaded.
ConditionsConfigEmits(config) ==
    /\ phase # "destroyed"
    /\ conditionsConfig' = <<config>>
    /\ conditionData' = conditionsConfigToData(config, conditionData[1])
    /\ expanded' = revealed(Comp, conditionData')
    /\ Commit(onConditionsConfig(Comp, config, conditionData[1]),
              Op("conditionsConfig$", -1, NoFile))
    /\ UNCHANGED <<phase, pending, boundaryConfig, orchVars>>

\* The map service emits the conditions config it holds once more: the same
\* object, metrics included.
ConditionsConfigEmitsAgain ==
    /\ phase # "destroyed"
    /\ conditionsConfig # <<>>
    /\ conditionData' = conditionsConfigToData(conditionsConfig[1], conditionData[1])
    /\ expanded' = revealed(Comp, conditionData')
    /\ Commit(onConditionsConfig(Comp, conditionsConfig[1], conditionData[1]),
              Op("conditionsConfig$", -1, NoFile))
    /\ UNCHANGED <<phase, pending, boundaryConfig, orchVars, conditionsConfig>>

\* The user selects the node at a path of the tree.
OnSelect(path) ==
    /\ phase = "running"
    /\ ~nodeAt(conditionData, path).disableSelect
    /\ conditionData' = onSelect(conditionData, path)
    /\ conditionsConfig' = IF conditionsConfig = <<>> THEN <<>>
                           ELSE <<sharedMetrics(conditionsConfig[1], conditionData')>>
    /\ lastOp' = Op("onSelect", Len(path), NoFile)
    /\ calls' = <<>>
    /\ UNCHANGED <<phase, pending, compVars, boundaryConfig, orchVars, expanded>>

InitTree ==
    /\ Constructed
    /\ sessionViewOptions = <<>>
    /\ sessionMapConfigs \in PersistedDataLayers
    /\ boundaryConfig = <<>>
    /\ selectedRegion = "none"
    /\ conditionsConfig = <<>>

NextTree ==
    \/ NgOnInit
    \/ NgAfterViewInit
    \/ \E config \in ConditionsConfigs : ConditionsConfigEmits(config)
    \/ ConditionsConfigEmitsAgain
    \/ \E path \in Paths(conditionData) : OnSelect(path)

SpecTree == InitTree /\ [][NextTree]_vars

\* ------------------------------------------------------------------------
\* The restore of the session and the boundary catalog
\* ------------------------------------------------------------------------
\* The map service emits a boundary catalog; boundaryConfig$ holds it for the
\* subscribers to come.
BoundaryConfigEmits(catalog) ==
    /\ boundaryConfig' = <<catalog>>
    /\ Commit(onBoundaryConfig(Comp, <<catalog>>), Op("boundaryConfig$", -1, NoFile))
    /\ UNCHANGED <<phase, pending, orchVars, treeVars>>

\* The session store emits view options again, after the restore.
SessionEmitsMapViewOptions(value) ==
    /\ phase # "constructed"
    /\ Commit(onSessionMapViewOptions([Comp EXCEPT !.session = <<value>>], <<value>>),
              Op("sessionMapViewOptions$", -1, NoFile))
    /\ UNCHANGED <<phase, pending, boundaryConfig, orchVars, treeVars>>

\* The session store emits a list of map configs again, after the restore.
SessionEmitsMapConfigs(value) ==
    /\ phase # "constructed"
    /\ Commit(onSessionMapConfigs([Comp EXCEPT !.sessionConfigs = <<value>>],
                                  <<value>>, boundaryConfig),
              Op("sessionMapConfigs$", -1, NoFile))
    /\ UNCHANGED <<phase, pending, boundaryConfig, orchVars, treeVars>>

InitSession ==
    /\ Constructed
    /\ sessionViewOptions \in RestoredViewOptions
    /\ sessionMapConfigs \in PersistedMapConfigs
    /\ boundaryConfig = <<>>
    /\ selectedRegion = "none"
    /\ conditionsConfig = <<>>

NextSession ==
    \/ NgOnInit
    \/ \E catalog \in BoundaryCatalogs : BoundaryConfigEmits(catalog)
    \/ \E value \in LaterViewOptions : SessionEmitsMapViewOptions(value)
    \/ \E value \in LaterMapConfigs : SessionEmitsMapConfigs(value)

SpecSession == InitSession /\ [][NextSession]_vars

\* ------------------------------------------------------------------------
\* The legends
\* ------------------------------------------------------------------------
MaxFetches == 2

\* The maps whose condition layer the user changes.
LegendMaps == {0, 1}

\* The condition layers to choose from: none, a layer that names a colormap
\* and a layer that names no colormap.
ConditionLayers ==
    { NONE_DATA_LAYER_CONFIG,
      [Node("m1", FALSE, FALSE, <<>>) EXCEPT !.colormap = "inferno"],
      Node("m2", FALSE, FALSE, <<>>) }

\* The data layers a session may have persisted, with their colormaps.
PersistedLegendLayers ==
    { <<>>,
      << [i \in 1 .. NumMaps |->
            [ dataLayerConfig |->
                [Node(<<"m1", "", "m2", "">>[i], FALSE, FALSE, <<>>)
                   EXCEPT !.colormap =
                     <<"inferno", NONE_COLORMAP, UndefinedColormap, NONE_COLORMAP>>[i]],
              boundaryLayerConfig |-> NONE_BOUNDARY_CONFIG ]] >> }

\* The user picks a condition layer for a map: the radio group writes the
\* layer into the map's config and calls changeConditionsLayer(map).
ChangeConditionsLayer(mapIndex, layer) ==
    /\ phase = "running"
    /\ Len(colormapFetches) < MaxFetches
    /\ Commit(changeConditionsLayer(
                 [Comp EXCEPT !.mapConfigs[mapIndex].dataLayerConfig = layer], mapIndex),
              Op("changeConditionsLayer", mapIndex, layer.filepath))
    /\ UNCHANGED <<phase, pending, boundaryConfig, orchVars, treeVars>>

\* The map service answers request k with the colormap asked for.
ColormapFetched(k) ==
    /\ k \in DOMAIN colormapFetches
    /\ Commit(onColormapConfig(Comp, k), Op("getColormap", colormapFetches[k].map,
                                            colormapFetches[k].colormap))
    /\ UNCHANGED <<phase, pending, boundaryConfig, orchVars, treeVars>>

InitLegend ==
    /\ Constructed
    /\ sessionViewOptions = <<>>
    /\ sessionMapConfigs \in PersistedLegendLayers
    /\ boundaryConfig = <<>>
    /\ selectedRegion = "none"
    /\ conditionsConfig = <<>>

NextLegend ==
    \/ NgOnInit
    \/ NgAfterViewInit
    \/ \E mapIndex \in LegendMaps, layer \in ConditionLayers :
          ChangeConditionsLayer(mapIndex, layer)
    \/ \E k \in 1 .. MaxFetches + NumMaps : ColormapFetched(k)

SpecLegend == InitLegend /\ [][NextLegend]_vars

\* ------------------------------------------------------------------------
\* The snapshots of the session
\* ------------------------------------------------------------------------
\* this.maps.map((map) => map.config)
currentMapConfigs(c) == [i \in 1 .. NumMaps |-> c.mapConfigs[i - 1]]

\* The subscriber of sessionInterval$ that ngOnInit sets up.
onSessionInterval(c) ==
    Call([setMapViewOptions(c, c.mvo) EXCEPT !.sessionConfigs = <<currentMapConfigs(c)>>],
         "setMapConfigs", -1)

\* sessionInterval$ ticks; the subscription lasts until destroy$ emits.
AutosaveTick ==
    /\ phase = "running"
    /\ Commit(onSessionInterval(Comp), Op("sessionInterval$", -1, NoFile))
    /\ UNCHANGED <<phase, pending, boundaryConfig, orchVars, treeVars>>

\* The workspace is left and the component destroyed.
NgOnDestroy ==
    /\ phase = "running"
    /\ phase' = "destroyed"
    /\ Commit(ngOnDestroy(Comp), Op("ngOnDestroy", -1, NoFile))
    /\ UNCHANGED <<pending, boundaryConfig, orchVars, treeVars>>

InitSnapshot ==
    /\ Constructed
    /\ sessionViewOptions \in RestoredViewOptions
    /\ sessionMapConfigs \in PersistedLegendLayers
    /\ boundaryConfig = <<>>
    /\ selectedRegion = "none"
    /\ conditionsConfig = <<>>

NextSnapshot ==
    \/ NgOnInit
    \/ NgAfterViewInit
    \/ \E mapIndex \in MapIndices : SelectMap(mapIndex)
    \/ \E mapCount \in MapCounts : ChangeMapCount(mapCount)
    \/ \E layer \in ConditionLayers : ChangeConditionsLayer(0, layer)
    \/ \E k \in 1 .. MaxFetches + NumMaps : ColormapFetched(k)
    \/ AutosaveTick
    \/ NgOnDestroy

SpecSnapshot == InitSnapshot /\ [][NextSnapshot]_vars

\* ------------------------------------------------------------------------
\* Properties
\* ------------------------------------------------------------------------
RowIndices == {0, 1}

\* The pair of maps shown together in the two-map view: {0,1} or {2,3}.
PairOf(i) == IF i \in {0, 1} THEN {0, 1} ELSE {2, 3}

\* C1: for numVisibleMaps in {1,2,4}, any selected index and any index,
\* isMapVisible(index) is true exactly when the index is the selected one, or
\* four maps are shown, or two maps are shown and the index is in the pair of
\* the selected index; with two maps and map 2 selected the four results are
\* false, false, true, true.
C1_VisibleTable ==
    /\ mapViewOptions.numVisibleMaps \in {1, 2, 4} =>
          \A index \in MapIndices :
              isMapVisible(index) <=>
                  \/ index = mapViewOptions.selectedMapIndex
                  \/ mapViewOptions.numVisibleMaps = 4
                  \/ /\ mapViewOptions.numVisibleMaps = 2
                     /\ index \in PairOf(mapViewOptions.selectedMapIndex)
    /\ (mapViewOptions.numVisibleMaps = 2 /\ mapViewOptions.selectedMapIndex = 2) =>
          <<isMapVisible(0), isMapVisible(1), isMapVisible(2), isMapVisible(3)>>
              = <<FALSE, FALSE, TRUE, TRUE>>

C1_Witness ==
    /\ phase = "running"
    /\ mapViewOptions.numVisibleMaps = 2
    /\ mapViewOptions.selectedMapIndex = 2
    /\ isMapVisible(3)
    /\ ~isMapVisible(0)

\* C2: with four maps shown both rows are "50%" high; with one or two maps
\* shown the row of the selected map (selectedMapIndex div 2) is "100%" high,
\* the other row "0%", so exactly one row is "100%".
C2_RowHeight ==
    /\ mapViewOptions.numVisibleMaps = 4 =>
          \A row \in RowIndices : mapRowHeight(row) = "50%"
    /\ mapViewOptions.numVisibleMaps \in {1, 2} =>
          /\ \A row \in RowIndices :
                mapRowHeight(row) =
                    IF mapViewOptions.selectedMapIndex \in {2 * row, 2 * row + 1}
                    THEN "100%" ELSE "0%"
          /\ Cardinality({row \in RowIndices : mapRowHeight(row) = "100%"}) = 1

C2_Witness ==
    /\ phase = "running"
    /\ mapViewOptions.numVisibleMaps = 1
    /\ mapViewOptions.selectedMapIndex = 3
    /\ mapRowHeight(1) = "100%"
    /\ mapRowHeight(0) = "0%"

\* C3: in every reachable state the selected map index is one of the four
\* maps' indices.
C3_SelectedIndexValid == mapViewOptions.selectedMapIndex \in MapIndices

C3_Witness ==
    /\ lastOp.op = "cancelAreaCreationAction"
    /\ mapViewOptions.selectedMapIndex = 3
    /\ sessionViewOptions # <<>>

Selected == mapViewOptions.selectedMapIndex
OtherMaps == MapIndices \ {Selected}

\* C5: selectMap(i) with i other than the selected index makes i the selected
\* index; selectMap(i) with i the selected index does nothing: no call to a
\* collaborator is made (the view options are not published, the session
\* store is not written, no drawing control or clone is touched) and the
\* state stays as it was.
C5_SelectMapNoOpWhenSame ==
    [][ \A i \in MapIndices :
          (lastOp'.op = "selectMap" /\ lastOp'.arg = i) =>
              IF i # Selected
              THEN mapViewOptions'.selectedMapIndex = i
              ELSE /\ calls' = <<>>
                   /\ UNCHANGED <<mapViewOptions, sessionViewOptions, control, tool,
                                  cloneShown, drawing, cloned,
                                  selectedAreaCreationAction, showUploader,
                                  showConfirmAreaButton>> ]_vars

\* selectMap of the map already selected, made while a shape is being drawn.
C5_Witness ==
    /\ lastOp.op = "selectMap"
    /\ lastOp.arg = Selected
    /\ calls = <<>>
    /\ selectedAreaCreationAction = DRAW
    /\ control[Selected]
    /\ drawing # {}

\* C6: selecting the Draw action leaves the drawing control attached to the
\* selected map and to no other map, the cloned drawing shown on every other
\* map, the polygon tool enabled on the selected map, the upload panel
\* hidden, numVisibleMaps equal to 1 and the selected index as it was.
C6_DrawAction ==
    [][ (lastOp'.op = "onAreaCreationActionChange" /\ lastOp'.arg = DRAW) =>
          /\ mapViewOptions'.selectedMapIndex = Selected
          /\ mapViewOptions'.numVisibleMaps = 1
          /\ control'[Selected]
          /\ tool'[Selected]
          /\ \A j \in OtherMaps : ~control'[j] /\ cloneShown'[j]
          /\ ~showUploader' ]_vars

\* Draw chosen while map 2 is the selected map.
C6_Witness ==
    /\ lastOp.op = "onAreaCreationActionChange"
    /\ lastOp.arg = DRAW
    /\ Selected = 2
    /\ control[2]
    /\ cloneShown[0]
    /\ mapViewOptions.numVisibleMaps = 1

\* C7: from Draw, switching to Upload leaves the polygon tool of the selected
\* map disabled and the upload panel shown; switching to Draw from Upload
\* leaves the panel hidden and the tool of the selected map enabled; and the
\* panel is never shown while a polygon tool is enabled.
C7_DrawUploadExclusive ==
    /\ [](~(showUploader /\ \E i \in MapIndices : tool[i]))
    /\ [][ /\ (/\ selectedAreaCreationAction = DRAW
               /\ lastOp'.op = "onAreaCreationActionChange"
               /\ lastOp'.arg = UPLOAD) =>
                  (~tool'[Selected] /\ showUploader')
           /\ (/\ selectedAreaCreationAction = UPLOAD
               /\ lastOp'.op = "onAreaCreationActionChange"
               /\ lastOp'.arg = DRAW) =>
                  (tool'[Selected] /\ ~showUploader') ]_vars

\* Upload chosen while a drawn shape exists: panel open, tool off.
C7_Witness ==
    /\ lastOp.op = "onAreaCreationActionChange"
    /\ lastOp.arg = UPLOAD
    /\ selectedAreaCreationAction = UPLOAD
    /\ showUploader
    /\ DrawnPolygon \in drawing
    /\ \A i \in MapIndices : ~tool[i]

\* C8: when an archive read finishes with a FeatureCollection while Upload is
\* the selected action, its features are on the drawing layer, the upload
\* panel is hidden, the drawing control is attached to the selected map, the
\* clone is shown on the other maps, and the confirm button is shown.
C8_UploadInstalled ==
    [][ (/\ lastOp'.op = "loadAreaDone"
         /\ ~parseZip(lastOp'.file).throws
         /\ parseZip(lastOp'.file).type = "FeatureCollection"
         /\ selectedAreaCreationAction = UPLOAD) =>
          /\ parseZip(lastOp'.file).features \subseteq drawing'
          /\ ~showUploader'
          /\ control'[mapViewOptions'.selectedMapIndex]
          /\ \A j \in MapIndices \ {mapViewOptions'.selectedMapIndex} : cloneShown'[j]
          /\ showConfirmAreaButton' ]_vars

C8_Witness ==
    /\ lastOp.op = "loadAreaDone"
    /\ lastOp.file = "fcA"
    /\ selectedAreaCreationAction = UPLOAD
    /\ "a" \in drawing
    /\ control[Selected]
    /\ showConfirmAreaButton
    /\ ~showUploader

\* C9: when an archive read finishes with a parse failure or with a value
\* that is not a FeatureCollection, the only effect is the error notice: the
\* selected action, the upload panel flag, the confirm flag, the geometry and
\* the drawing controls keep their values.
C9_InvalidArchive ==
    [][ (/\ lastOp'.op = "loadAreaDone"
         /\ \/ parseZip(lastOp'.file).throws
            \/ parseZip(lastOp'.file).type # "FeatureCollection") =>
          /\ calls' = << <<"snackbar:Not a valid shapefile", -1>> >>
          /\ UNCHANGED <<selectedAreaCreationAction, showUploader,
                         showConfirmAreaButton, drawing, cloned, control, tool,
                         cloneShown, mapViewOptions>> ]_vars

\* A single Feature was uploaded while the panel is open: notice, panel open.
C9_Witness ==
    /\ lastOp.op = "loadAreaDone"
    /\ lastOp.file = "feature"
    /\ calls = << <<"snackbar:Not a valid shapefile", -1>> >>
    /\ selectedAreaCreationAction = UPLOAD
    /\ showUploader
    /\ drawing = {}

\* C10: after Cancel, from whatever state, no map has a drawing control, the
\* drawing layer and the clones are empty, the selected action is NONE and
\* the upload panel is hidden.
C10_CancelClearsAll ==
    lastOp.op = "cancelAreaCreationAction" =>
        /\ \A i \in MapIndices : ~control[i]
        /\ drawing = {}
        /\ cloned = {}
        /\ selectedAreaCreationAction = NONE
        /\ ~showUploader

C10_Witness ==
    /\ lastOp.op = "cancelAreaCreationAction"
    /\ Selected = 1
    /\ InFlight > 0
    /\ \A i \in MapIndices : ~control[i]
    /\ \E i \in MapIndices : cloneShown[i]

\* What selectMap(n) leaves behind when it moves the drawing session from the
\* map p selected before to n.
Transferred(p, n) ==
    /\ ~control'[p]
    /\ control'[n]
    /\ cloneShown'[p]
    /\ ~cloneShown'[n]

\* C11 as claimed: when the selection moves from p to n while the action is
\* Draw or Upload, or a shape awaits confirmation, the drawing control moves
\* from p to n, p shows the clone and n's clone is hidden.
C11_TransferWhenDrawOrUpload ==
    [][ \A n \in MapIndices :
          (/\ lastOp'.op = "selectMap" /\ lastOp'.arg = n
           /\ n # Selected
           /\ \/ selectedAreaCreationAction \in {DRAW, UPLOAD}
              \/ showConfirmAreaButton) =>
              Transferred(Selected, n) ]_vars

\* C11 amended: when the selection moves from p to n while the action is Draw,
\* or a shape awaits confirmation (whatever the action), the drawing control
\* moves from p to n, p shows the clone and n's clone is hidden.
C11_TransferWhenDrawOrConfirmable ==
    [][ \A n \in MapIndices :
          (/\ lastOp'.op = "selectMap" /\ lastOp'.arg = n
           /\ n # Selected
           /\ \/ selectedAreaCreationAction = DRAW
              \/ showConfirmAreaButton) =>
              Transferred(Selected, n) ]_vars

\* The selection moved to map 3 while an uploaded shape awaits confirmation
\* under the Upload action: map 3 has the control, map 0 shows the clone.
C11_Witness ==
    /\ lastOp.op = "selectMap"
    /\ lastOp.arg = 3
    /\ selectedAreaCreationAction = UPLOAD
    /\ showConfirmAreaButton
    /\ control[3]
    /\ ~cloneShown[3]
    /\ cloneShown[0]
    /\ ~control[0]

\* C12: the restore of the session runs once, at startup.  Persisted view
\* options, if any, become the current view options, else the defaults stay.
\* The i-th element of a persisted list of map configs becomes the config of
\* map i (its boundary as persisted as long as no boundary catalog is held),
\* else every map keeps its default config.  What the session store emits
\* later changes neither the view options nor the map configs.
C12_RestoreOnce ==
    [][ /\ lastOp'.op = "ngOnInit" =>
            /\ mapViewOptions' = IF sessionViewOptions # <<>>
                                 THEN sessionViewOptions[1] ELSE defaultMapViewOptions
            /\ \A i \in MapIndices :
                  LET restored == IF sessionMapConfigs # <<>>
                                  THEN sessionMapConfigs[1][i + 1] ELSE defaultMapConfig
                  IN  /\ mapConfigs'[i].dataLayerConfig = restored.dataLayerConfig
                      /\ boundaryConfig = <<>> => mapConfigs'[i] = restored
        /\ lastOp'.op \in {"sessionMapViewOptions$", "sessionMapConfigs$"} =>
            /\ mapViewOptions' = mapViewOptions
            /\ mapConfigs' = mapConfigs ]_vars

\* The restored configs and view options are still in place after the session
\* store emitted another list of map configs.
C12_Witness ==
    /\ lastOp.op = "sessionMapConfigs$"
    /\ sessionMapConfigs # <<>>
    /\ sessionMapConfigs[1][1].dataLayerConfig.filepath = "m3"
    /\ mapConfigs[0].dataLayerConfig.filepath = "m1"
    /\ mapConfigs[1].dataLayerConfig.filepath = "m2_normalized"
    /\ mapConfigs[0].boundaryLayerConfig = StaleBoundary("HUC12")
    /\ mapViewOptions = [selectedMapIndex |-> 3, numVisibleMaps |-> 1]

\* The boundary a catalog prescribes for a map whose boundary has that name.
ExpectedBoundary(catalog, name) ==
    IF \E k \in 1 .. Len(catalog) : catalog[k].boundary_name = name
    THEN catalog[CHOOSE k \in 1 .. Len(catalog) : catalog[k].boundary_name = name]
    ELSE NONE_BOUNDARY_CONFIG

\* C13: when the boundary catalog becomes available, be it before the
\* persisted map configs are applied (the restore then meets the catalog) or
\* after, the boundary of every map is afterwards the entry of the catalog
\* with the name the map's boundary had, or NONE_BOUNDARY_CONFIG if the
\* catalog has no entry of that name.
C13_CatalogWins ==
    [][ /\ (lastOp'.op = "boundaryConfig$" /\ subs.boundaryConfig) =>
            \A i \in MapIndices :
               mapConfigs'[i].boundaryLayerConfig =
                  ExpectedBoundary(boundaryConfig'[1],
                                   mapConfigs[i].boundaryLayerConfig.boundary_name)
        /\ (lastOp'.op = "ngOnInit" /\ boundaryConfig # <<>>) =>
            \A i \in MapIndices :
               LET restored == IF sessionMapConfigs # <<>>
                               THEN sessionMapConfigs[1][i + 1] ELSE defaultMapConfig
               IN  mapConfigs'[i].boundaryLayerConfig =
                      ExpectedBoundary(boundaryConfig[1],
                                       restored.boundaryLayerConfig.boundary_name) ]_vars

\* The catalog arrived after the restore: map 0 has the catalog's HUC12, and
\* map 1, whose persisted boundary is not in the catalog, has none.
C13_Witness ==
    /\ lastOp.op = "boundaryConfig$"
    /\ sessionMapConfigs # <<>>
    /\ sessionMapConfigs[1][1].boundaryLayerConfig = StaleBoundary("HUC12")
    /\ sessionMapConfigs[1][2].boundaryLayerConfig = StaleBoundary("County")
    /\ boundaryConfig = << <<FreshBoundary("HUC12")>> >>
    /\ mapConfigs[0].boundaryLayerConfig = FreshBoundary("HUC12")
    /\ mapConfigs[1].boundaryLayerConfig = NONE_BOUNDARY_CONFIG

\* C14: a createPlan request made while no region is selected never leads to
\* a call of the plan service, whatever region is selected later.
C14_NoRegionNoCall ==
    \A k \in DOMAIN planRequests :
       planRequests[k].issuedWith = "none" => planRequests[k].calls = <<>>

\* C15: a createPlan request made while a region is selected makes exactly one
\* call of the plan service, with the name, the region and the geometry of
\* the request; an error of the service shows a notice and is followed by no
\* further call for that request, also when the region changes afterwards.
C15_ExactlyOneCall ==
    \A k \in DOMAIN planRequests :
       planRequests[k].issuedWith # "none" =>
          /\ Len(planRequests[k].calls) = 1
          /\ planRequests[k].calls[1].name = planRequests[k].name
          /\ planRequests[k].calls[1].region = planRequests[k].issuedWith
          /\ planRequests[k].calls[1].planningArea = planRequests[k].shape
          /\ planRequests[k].calls[1].status = "failed" =>
                BackendErrorNotice \in { planRequests[k].notices[n] :
                                           n \in DOMAIN planRequests[k].notices }

\* The layer names other than l that have an indicator.
OtherLayers(l) == DOMAIN loadingIndicators \ {l}

\* C20: a start-loading or done-loading event for layer l sets the indicator
\* of l to true resp. false and leaves the indicator of every other layer as
\* it was; the completion of the fetch of the existing projects sets the
\* indicator of existing_projects to false and changes no other.
C20_OnlyOwnIndicator ==
    [][ /\ \A l \in LayerNames :
              (lastOp'.op = "startLoadingLayerCallback" /\ lastOp'.file = l) =>
                 /\ loadingIndicators'[l] = TRUE
                 /\ DOMAIN loadingIndicators' = DOMAIN loadingIndicators \cup {l}
                 /\ \A o \in OtherLayers(l) : loadingIndicators'[o] = loadingIndicators[o]
        /\ \A l \in LayerNames :
              (lastOp'.op = "doneLoadingLayerCallback" /\ lastOp'.file = l) =>
                 /\ loadingIndicators'[l] = FALSE
                 /\ DOMAIN loadingIndicators' = DOMAIN loadingIndicators \cup {l}
                 /\ \A o \in OtherLayers(l) : loadingIndicators'[o] = loadingIndicators[o]
        /\ lastOp'.op = "getExistingProjects" =>
                 /\ loadingIndicators'["existing_projects"] = FALSE
                 /\ DOMAIN loadingIndicators' = DOMAIN loadingIndicators
                 /\ \A o \in OtherLayers("existing_projects") :
                       loadingIndicators'[o] = loadingIndicators[o] ]_vars

\* The existing projects arrived while two other layers are loading.
C20_Witness ==
    /\ lastOp.op = "getExistingProjects"
    /\ DOMAIN loadingIndicators = LayerNames
    /\ ~loadingIndicators["existing_projects"]
    /\ loadingIndicators["huc12"]
    /\ loadingIndicators["m1"]

\* p names a node strictly below the node n names.
StrictDescendant(p, n) == Len(p) > Len(n) /\ SubSeq(p, 1, Len(n)) = n

\* C16: for every node n of the tree, after onSelect(n) the nodes with
\* styleDisabled = true are exactly the strict descendants of n and every
\* other node (n, its ancestors, its siblings, the other branches) has
\* styleDisabled = false, whatever was selected before; a second onSelect(n)
\* changes nothing.
C16_ExactlyStrictDescendants ==
    \A n \in Paths(conditionData) :
       LET after == onSelect(conditionData, n) IN
       /\ \A p \in Paths(after) :
             nodeAt(after, p).styleDisabled =
                IF StrictDescendant(p, n) THEN "true" ELSE "false"
       /\ Paths(after) = Paths(conditionData)
       /\ onSelect(after, n) = after

\* The first pillar of the normalized branch was selected: its elements and
\* metrics are disabled, the pillar, its sibling and the raw branch are not.
C16_Witness ==
    /\ lastOp.op = "onSelect"
    /\ Len(conditionData) = 3
    /\ Len(conditionData[3].children) = 2
    /\ conditionData[3].styleDisabled = "false"
    /\ conditionData[3].children[1].styleDisabled = "false"
    /\ conditionData[3].children[1].children[1].styleDisabled = "true"
    /\ conditionData[3].children[1].children[1].children[1].styleDisabled = "true"
    /\ conditionData[3].children[2].styleDisabled = "false"
    /\ conditionData[3].children[2].children[1].styleDisabled = "false"
    /\ conditionData[2].children[1].children[1].children[1].styleDisabled = "false"

\* C17, as claimed: a node with styleDisabled = true has no ancestor with
\* styleDisabled = true.
C17_NoDisabledAncestor ==
    \A p \in Paths(conditionData) :
       nodeAt(conditionData, p).styleDisabled = "true" =>
          \A n \in 1 .. Len(p) - 1 :
             nodeAt(conditionData, SubSeq(p, 1, n)).styleDisabled # "true"

\* C17, amended: disabling cascades downward only.  A node with
\* styleDisabled = true has every descendant disabled too, and the top-level
\* node of its branch is not disabled.
C17_DisabledCascadesDownward ==
    \A p \in Paths(conditionData) :
       nodeAt(conditionData, p).styleDisabled = "true" =>
          /\ \A d \in Paths(conditionData) :
                StrictDescendant(d, p) => nodeAt(conditionData, d).styleDisabled = "true"
          /\ nodeAt(conditionData, SubSeq(p, 1, 1)).styleDisabled # "true"

\* An element is disabled, and so are its metrics, below a selected pillar.
C17_Witness ==
    /\ Len(conditionData) = 3
    /\ Len(conditionData[3].children) >= 1
    /\ conditionData[3].children[1].styleDisabled = "false"
    /\ conditionData[3].children[1].children[1].styleDisabled = "true"
    /\ Len(conditionData[3].children[1].children[1].children) = 2
    /\ conditionData[3].children[1].children[1].children[2].styleDisabled = "true"

\* The filepaths findAndRevealNodeWithFilepath is examined with: those of the
\* nodes of the tree, and some that may be in no node.
SearchedFilepaths ==
    { nodeAt(conditionData, p).filepath : p \in Paths(conditionData) }
       \cup {"", UndefinedFilepath, "nowhere", "p1", "p2e1m1_normalized"}

\* C18: findAndRevealNodeWithFilepath returns the none node, and asks for no
\* expansion, for an empty or undefined filepath and for a filepath no node
\* of the four levels has; for the filepath of a node it returns that node
\* and asks for the expansion of its ancestors and of nothing else, the
\* outermost first.
C18_FindAndReveal ==
    \A filepath \in SearchedFilepaths :
       LET r == findAndRevealNodeWithFilepath(conditionData, filepath)
           matches == { p \in Paths(conditionData) :
                          /\ Len(p) <= SearchedLevels
                          /\ nodeAt(conditionData, p).filepath = filepath }
       IN  IF filepath \in {"", UndefinedFilepath} \/ matches = {}
           THEN r.path = <<1>> /\ r.expands = <<>>
           ELSE /\ r.path \in matches
                /\ Len(r.expands) = Len(r.path) - 1
                /\ \A n \in 1 .. Len(r.expands) : r.expands[n] = SubSeq(r.path, 1, n)

\* A rebuild found the metric of map 0 and the pillar of map 1 and expanded
\* their ancestors; the element of map 3 is not in the tree.
C18_Witness ==
    /\ lastOp.op = "conditionsConfig$"
    /\ mapConfigs[0].dataLayerConfig.filepath = "p1e1m1"
    /\ mapConfigs[1].dataLayerConfig.filepath = "p2_normalized"
    /\ mapConfigs[3].dataLayerConfig = conditionData[1]
    /\ sessionMapConfigs # <<>>
    /\ expanded = { <<2>>, <<2, 1>>, <<2, 1, 1>>, <<3>> }

\* Every node of the normalized branch mirrors its raw node.
RECURSIVE Mirrors(_, _)
Mirrors(normalized, raw) ==
    /\ normalized.normalized = TRUE
    /\ normalized.filepath = raw.filepath \o "_normalized"
    /\ Len(normalized.children) = Len(raw.children)
    /\ \A k \in DOMAIN raw.children : Mirrors(normalized.children[k], raw.children[k])

C23_ControlOnSelectedOnly ==
    \A i \in MapIndices : control[i] => i = mapViewOptions.selectedMapIndex

\* The control followed the selection to map 2 while drawing.
C23_Witness ==
    /\ lastOp.op = "selectMap"
    /\ lastOp.arg = 2
    /\ selectedAreaCreationAction = DRAW
    /\ mapViewOptions.selectedMapIndex = 2
    /\ control[2]
    /\ drawing # {}

\* C24: a switch to the Upload action removes the drawing control of the
\* selected map if no shape awaits confirmation; if one does, the control and
\* the drawn shape stay and only the polygon tool is disabled; either way
\* the flag of the upload panel is toggled.
C24_UploadSwitch ==
    [][ (lastOp'.op = "onAreaCreationActionChange" /\ lastOp'.arg = UPLOAD) =>
           /\ ~showConfirmAreaButton => ~control'[Selected]
           /\ showConfirmAreaButton =>
                 /\ control' = control
                 /\ drawing' = drawing
                 /\ cloned' = cloned
                 /\ showConfirmAreaButton'
           /\ ~tool'[Selected]
           /\ showUploader' = ~showUploader
           /\ selectedAreaCreationAction' = UPLOAD ]_vars

\* Upload was selected twice in a row over a drawn shape: the panel is hidden
\* again, the control and the shape are still there.
C24_Witness ==
    /\ lastOp.op = "onAreaCreationActionChange"
    /\ lastOp.arg = UPLOAD
    /\ selectedAreaCreationAction = UPLOAD
    /\ showConfirmAreaButton
    /\ ~showUploader
    /\ control[Selected]
    /\ DrawnPolygon \in drawing

\* C25: whenever the Draw action is selected, one map is visible.
C25_DrawSingleMap ==
    selectedAreaCreationAction = DRAW => mapViewOptions.numVisibleMaps = 1

\* C29: whenever no area creation action is selected, no map has the drawing
\* control, the upload panel is hidden and no shape awaits confirmation.
C29_IdleIsClean ==
    selectedAreaCreationAction = NONE =>
       /\ \A i \in MapIndices : ~control[i]
       /\ ~showUploader
       /\ ~showConfirmAreaButton

\* C30: a visible map never lies in a collapsed row.
C30_VisibleRowNotCollapsed ==
    \A i \in MapIndices : isMapVisible(i) => mapRowHeight(i \div 2) # "0%"

\* Two maps visible, map 2 selected: map 3 is visible in the full row 1,
\* row 0 is collapsed and its maps are hidden.
C30_Witness ==
    /\ mapViewOptions = [selectedMapIndex |-> 2, numVisibleMaps |-> 2]
    /\ isMapVisible(3)
    /\ mapRowHeight(1) = "100%"
    /\ mapRowHeight(0) = "0%"
    /\ ~isMapVisible(0)

BranchRoots == { p \in Paths(conditionData) : Len(p) = 1 /\ p[1] \in {2, 3} }
PillarsAndElements(branch) ==
    { p \in Paths(conditionData) : Len(p) \in {2, 3} /\ p[1] = branch }

\* C27, as claimed: the roots of the raw and the normalized branch and every
\* pillar and element of both branches have disableSelect = true.
C27_NonLeafNotSelectable ==
    \A p \in BranchRoots \cup PillarsAndElements(2) \cup PillarsAndElements(3) :
       nodeAt(conditionData, p).disableSelect

\* C27, amended: the roots of both branches and every pillar and element of
\* the raw branch have disableSelect = true; the pillars and elements of the
\* normalized branch do not.
C27_RawNonLeafNotSelectable ==
    /\ \A p \in BranchRoots \cup PillarsAndElements(2) :
          nodeAt(conditionData, p).disableSelect
    /\ \A p \in PillarsAndElements(3) : ~nodeAt(conditionData, p).disableSelect

\* A tree with a pillar and an element in both branches.
C27_Witness ==
    /\ Len(conditionData) = 3
    /\ Len(conditionData[2].children) = 2
    /\ conditionData[2].disableSelect
    /\ conditionData[3].disableSelect
    /\ conditionData[2].children[2].disableSelect
    /\ conditionData[2].children[2].children[1].disableSelect
    /\ ~conditionData[3].children[2].disableSelect
    /\ ~conditionData[3].children[2].children[1].disableSelect

\* C21: a change of a map's condition layer clears the map's legend and asks
\* for no colormap when the layer's colormap is the none sentinel, asks for
\* the default colormap when the layer names none, and asks for the layer's
\* colormap otherwise, leaving the legends as they are; when a request is
\* answered, the legend of the map it was made for becomes the legend made of
\* the colormap asked for.
C21_LegendFollowsColormap ==
    [][ /\ lastOp'.op = "changeConditionsLayer" =>
             LET mapIndex == lastOp'.arg
                 colormap == mapConfigs'[mapIndex].dataLayerConfig.colormap
             IN IF colormap = NONE_COLORMAP
                THEN /\ legends' = [legends EXCEPT ![mapIndex] = UndefinedLegend]
                     /\ colormapFetches' = colormapFetches
                ELSE /\ legends' = legends
                     /\ colormapFetches' =
                          Append(colormapFetches,
                                 [ map      |-> mapIndex,
                                   colormap |-> IF colormap = UndefinedColormap
                                                THEN DEFAULT_COLORMAP ELSE colormap ])
        /\ lastOp'.op = "getColormap" =>
             /\ legends' = [legends EXCEPT
                              ![lastOp'.arg] = colormapConfigToLegend(lastOp'.file)]
             /\ \E k \in DOMAIN colormapFetches :
                   /\ colormapFetches[k] = [map |-> lastOp'.arg, colormap |-> lastOp'.file]
                   /\ Len(colormapFetches') = Len(colormapFetches) - 1 ]_vars

\* The default colormap's legend arrived for map 0, whose layer names no
\* colormap, after the legend of map 1 was cleared for the layer none.
C21_Witness ==
    /\ lastOp.op = "getColormap" /\ lastOp.arg = 0
    /\ mapConfigs[0].dataLayerConfig.filepath = "m2"
    /\ mapConfigs[0].dataLayerConfig.colormap = UndefinedColormap
    /\ legends[0] = colormapConfigToLegend(DEFAULT_COLORMAP)
    /\ mapConfigs[1].dataLayerConfig.colormap = NONE_COLORMAP
    /\ legends[1] = UndefinedLegend
    /\ colormapFetches = <<>>
    /\ sessionMapConfigs = <<>>

\* C28: a change of a map's condition layer cancels no colormap request: the
\* requests in flight before the change, those of the same map included, are
\* in flight after it, in the same order; so the answer to an older request can
\* arrive after a newer choice and leave the map with a legend of a colormap
\* that is not the current one (C28_Witness).
C28_FetchesNotCancelled ==
    [][ lastOp'.op = "changeConditionsLayer" =>
          /\ Len(colormapFetches') >= Len(colormapFetches)
          /\ SubSeq(colormapFetches', 1, Len(colormapFetches)) = colormapFetches ]_vars

\* Map 0 started without a layer, its layer is none again, and the answer to
\* the request made for an earlier choice has just given it a legend.
C28_Witness ==
    /\ sessionMapConfigs = <<>>
    /\ lastOp.op = "getColormap" /\ lastOp.arg = 0
    /\ mapConfigs[0].dataLayerConfig.colormap = NONE_COLORMAP
    /\ legends[0] = colormapConfigToLegend("inferno")
    /\ \A k \in DOMAIN colormapFetches : colormapFetches[k].map # 0

\* C22: once the component is destroyed, the session store holds the view
\* options (selectedMapIndex and numVisibleMaps) and the list of map configs
\* the component had when it was destroyed.
C22_TeardownPersistsAll ==
    phase = "destroyed" =>
        /\ sessionViewOptions = <<mapViewOptions>>
        /\ sessionMapConfigs = << [i \in 1 .. NumMaps |-> mapConfigs[i - 1]] >>
====
